---- MODULE Spec2Model ----
(***************************************************************************)
(* QuickBooks Online bulk invoice import (qbo_invoice_import.py), invoice  *)
(* PDF download (qbo_invoice_download.py) and the shared OAuth token       *)
(* refresh (qb_auth.py), as one state machine.  `script` says which of the *)
(* two entry points is running; every remote call is one step whose        *)
(* outcome (normal result, 401, other error) is chosen by the remote side. *)
(***************************************************************************)
EXTENDS Integers, Sequences, FiniteSets, TLC

\* ---------------------------------------------------------------- bounds
NumInvoices == 3
NumRows == 2

\* ---------------------------------------------------------------- values
None == -1                      \* Python None / a missing JSON value
StrNone == -2                   \* the string "None", i.e. str(None)
Keys == 1..NumInvoices          \* invoice numbers (DocNumber)
ManifestKeys == {1, 2}          \* invoice numbers download.csv asks for
Unobserved == None              \* `remote` while no record is being processed

VARIABLES
    script,         \* "import" | "download": which main() runs
    pc,             \* position of the running script
    exit_code,      \* process exit status (-1 while running)
    token_file,     \* content of qb_tokens.json
    CONFIG,         \* the module-global CONFIG dict (token part)
    client,         \* the QuickBooks client in use (None before it is built)
    issued,         \* last access token the authorization server issued
    remote,         \* number of QBO invoices whose DocNumber is inv_no
    total,          \* number of input records
    idx,            \* index of the record being processed
    inv_no,         \* invoice number of the current record
    data,           \* import: the current record
    file_name,      \* download: FileName of the current row
    attempt,        \* 1: first attempt, 2: inside the retry after a refresh
    resume,         \* the step re-run after a successful refresh
    li,             \* import: index of the line item being resolved
    lines,          \* import: SalesItemLines built so far
    payload,        \* import: Line list of the last Invoice.save call
    success,        \* import: the success counter
    status,         \* per record: pending/succeeded/skipped/failed
    retried,        \* per record: the retry after a refresh was entered
    rec_refresh,    \* refresh_access_token calls made for the current record
    refresh_count,  \* refresh grants invoked in this run
    last_op,        \* the last remote operation issued for the current record
    abort_cause,    \* why the record loop was left by break ("none": it was not)
    summaries,      \* import: number of summary lines printed
    invoice_id,     \* download: result of get_invoice_id
    pdf_content,    \* download: result of download_invoice_pdf
    full_path,      \* download: os.path.join(output_dir, file_name)
    unique_path,    \* download: result of get_unique_filename
    fs,             \* download: the files on disk, path -> content
    allocated,      \* download: the paths get_unique_filename returned before
    only_required,  \* --only-required
    auto_fill_qty_rate \* --auto-fill-qty-rate

vars == <<script, pc, exit_code, token_file, CONFIG, client, issued, remote,
          total, idx, inv_no, data, file_name, attempt, resume, li, lines, payload,
          success, status, retried, rec_refresh, refresh_count, last_op, abort_cause, summaries, invoice_id, pdf_content,
          full_path, unique_path, fs, allocated, only_required,
          auto_fill_qty_rate>>

credVars == <<token_file, CONFIG, client, issued>>
importVars == <<li, lines, payload, success, status, retried, summaries>>
downloadVars == <<invoice_id, pdf_content, full_path, unique_path, fs, allocated>>
flagVars == <<script, only_required, auto_fill_qty_rate>>

\* ------------------------------------------------------------ credentials
\* token pair number n handed out by the authorization server
AccessOf(n) == 2 * n - 1
RefreshOf(n) == 2 * n

\* qb_tokens.json: state is "ok" (complete JSON), "missing" or "corrupt"
Tokens(a, r, realm) ==
    [state |-> "ok", access_token |-> a, refresh_token |-> r, realm_id |-> realm]

NoFile == [state |-> "missing", access_token |-> None, refresh_token |-> None, realm_id |-> None]

\* a token file whose json.dump stopped part-way
Corrupt == [state |-> "corrupt", access_token |-> None, refresh_token |-> None, realm_id |-> None]

InitialTokenFiles ==
    { NoFile,
      Tokens(AccessOf(1), RefreshOf(1), 1),
      Tokens(AccessOf(1), RefreshOf(1), None) }

EmptyConfig == [ACCESS_TOKEN |-> None, REFRESH_TOKEN |-> None, REALM_ID |-> None]

\* the value of `client` when initialize_quickbooks_client() returned None
NoClient ==
    [auth_client |-> [access_token |-> None, refresh_token |-> None],
     access_token |-> None, refresh_token |-> None, company_id |-> None]

\* str(x) of a token value
Str(x) == IF x = None THEN StrNone ELSE x

\* load_tokens(): the CONFIG after CONFIG.update(...) from the file
LoadedConfig(file) ==
    [ACCESS_TOKEN |-> file.access_token,
     REFRESH_TOKEN |-> file.refresh_token,
     REALM_ID |-> file.realm_id]

\* load_tokens() returns True iff the file exists
load_tokens_ok(file) == file.state # "missing"

\* initialize_quickbooks_client() of the import script: the client built from
\* cfg, or None
ImportClient(cfg, ctor_ok) ==
    IF cfg.ACCESS_TOKEN = None \/ cfg.REALM_ID = None \/ ~ctor_ok
    THEN NoClient
    ELSE [auth_client |-> [access_token |-> cfg.ACCESS_TOKEN,
                           refresh_token |-> cfg.REFRESH_TOKEN],
          access_token |-> None,
          refresh_token |-> cfg.REFRESH_TOKEN,
          company_id |-> cfg.REALM_ID]

\* initialize_quickbooks_client() of the download script (str() conversions)
DownloadClient(cfg, ctor_ok) ==
    IF cfg.ACCESS_TOKEN = None \/ cfg.REALM_ID = None \/ ~ctor_ok
    THEN NoClient
    ELSE [auth_client |-> [access_token |-> Str(cfg.ACCESS_TOKEN),
                           refresh_token |-> Str(cfg.REFRESH_TOKEN)],
          access_token |-> None,
          refresh_token |-> Str(cfg.REFRESH_TOKEN),
          company_id |-> Str(cfg.REALM_ID)]

\* the CONFIG after initialize_quickbooks_client() of the download script,
\* which stores auth_client.access_token back into CONFIG (line 99)
DownloadConfigAfterInit(cfg, ctor_ok) ==
    IF cfg.ACCESS_TOKEN = None \/ cfg.REALM_ID = None \/ ~ctor_ok
    THEN cfg
    ELSE [cfg EXCEPT !.ACCESS_TOKEN = Str(cfg.ACCESS_TOKEN)]

\* a variant of initialize_quickbooks_client that hands back the client in use
KeptSession(cfg, ctor_ok) == client

initialize_quickbooks_client(cfg, ctor_ok) ==
    IF script = "import" THEN ImportClient(cfg, ctor_ok)
    ELSE DownloadClient(cfg, ctor_ok)

ConfigAfterInit(cfg, ctor_ok) ==
    IF script = "import" THEN cfg ELSE DownloadConfigAfterInit(cfg, ctor_ok)

\* ------------------------------------------------------------------ input
\* no remote operation was issued yet for the current record
NoOp ==
    [kind |-> "none", key |-> None, arg |-> 0, attempt |-> 0, result |-> "none",
     token |-> None]

\* the log entry of a remote operation: what was asked (kind, key, and for an
\* item lookup the row), in which attempt, with which bearer token, and the
\* outcome
Op(kind, key, arg, result, tok) ==
    [kind |-> kind, key |-> key, arg |-> arg, attempt |-> attempt,
     result |-> result, token |-> tok]

Digit == << "0", "1", "2", "3", "4", "5", "6", "7", "8", "9" >>

\* a CSV cell is a sequence of one-character strings
Blank == << >>
Cell(c) == << c >>

\* val.strip()
RECURSIVE strip(_)
strip(val) ==
    IF val = << >> THEN val
    ELSE IF Head(val) = " " THEN strip(Tail(val))
    ELSE IF val[Len(val)] = " " THEN strip(SubSeq(val, 1, Len(val) - 1))
    ELSE val

\* float(val) of a string of decimal digits
RECURSIVE float(_)
float(val) ==
    IF val = << >> THEN 0
    ELSE 10 * float(SubSeq(val, 1, Len(val) - 1))
         + (CHOOSE d \in 0..9 : Digit[d + 1] = val[Len(val)])

\* to_float_or_none (84-86)
to_float_or_none(val) ==
    IF strip(val) # << >> THEN float(strip(val)) ELSE None

\* one CSV row of an invoice as read_invoices stores it (119-125), with the
\* text of its ItemQuantity and ItemRate cells
Row(item, desc, qty, rate) ==
    [Item |-> item, Description |-> desc,
     ItemQuantity |-> qty, ItemRate |-> rate,
     Quantity |-> to_float_or_none(qty), Rate |-> to_float_or_none(rate),
     Amount |-> 6]

\* the LineItems lists the input file offers
InputLineItems ==
    { << Row("Widget", "", Blank, Blank) >>,
      << Row("Widget", "text", Cell("2"), Cell(" ")) >>,
      << Row("Widget", "", Blank, Cell("3")) >>,
      << Row("Widget", "", Cell("2"), Cell("3")) >>,
      << Row("Widget", "", Cell("0"), Blank) >>,
      << Row("", "text", Blank, Blank) >>,
      << Row("", "text", Cell("2"), Cell("3")) >>,
      << Row("", "", Blank, Blank) >>,
      << Row("", "text", Blank, Blank), Row("Widget", "", Blank, Blank) >>,
      << Row("Widget", "", << " ", "2" >>, Cell("3")), Row("Gadget", "", Blank, Cell("3")) >> }

\* the invoices the input file offers: every line list without terms, and
\* two of them with terms
InvoiceData ==
    [Customer : {"Acme"}, Terms : {""}, LineItems : InputLineItems]
    \cup [Customer : {"Acme"}, Terms : {"Net 30"},
          LineItems : { << Row("Widget", "", Cell("2"), Cell("3")) >>,
                        << Row("", "text", Blank, Blank), Row("Widget", "", Blank, Blank) >> }]

NoData == [Customer |-> "", Terms |-> "", LineItems |-> <<>>]

\* ------------------------------------------------------------ line items
\* lines 299-303: qty and rate after the optional --auto-fill-qty-rate
\* back-fill (the amounts offered divide exactly, so round(x, 4) = x)
FilledQty(row, fill) ==
    IF fill /\ row.Quantity = None
    THEN (IF row.Rate = None THEN 1
          ELSE IF row.Rate = 0 THEN 1 ELSE row.Amount \div row.Rate)
    ELSE row.Quantity

FilledRate(row, fill) ==
    IF fill /\ row.Rate = None
    THEN (IF row.Quantity = None THEN row.Amount
          ELSE IF row.Quantity = 0 THEN 0 ELSE row.Amount \div row.Quantity)
    ELSE row.Rate

\* a variant of _apply_qty_rate that leaves the SDK's default zeros
ZeroedQtyRate(qty, rate) ==
    [Qty |-> IF qty # None THEN qty ELSE 0,
     UnitPrice |-> IF rate # None THEN rate ELSE 0]

\* _apply_qty_rate: the detail's Qty and UnitPrice are cleared, then set only
\* when the value is not None
_apply_qty_rate(qty, rate) ==
    [Qty |-> IF qty # None THEN qty ELSE None,
     UnitPrice |-> IF rate # None THEN rate ELSE None]

\* lines 293-310: the SalesItemLine built for a row that names an item
ItemLine(row, only_req, fill) ==
    LET d == _apply_qty_rate(FilledQty(row, fill), FilledRate(row, fill))
    IN [DetailType |-> "SalesItemLineDetail",
        Item |-> row.Item,
        Qty |-> d.Qty,
        UnitPrice |-> d.UnitPrice,
        Description |-> IF ~only_req /\ row.Description # "" THEN row.Description ELSE "",
        Amount |-> row.Amount]

\* lines 318-324: the line built for a description-only row
DescriptionLine(row) ==
    [DetailType |-> "DescriptionOnly",
     Item |-> "",
     Qty |-> None,
     UnitPrice |-> None,
     Description |-> row.Description,
     Amount |-> row.Amount]

\* lines 288-324 between two item lookups: from row k on, rows without an
\* item are handled locally (appended as description-only lines, or skipped
\* when they have no description) until a row naming an item is met
RECURSIVE ScanLines(_, _, _)
ScanLines(rows, k, built) ==
    IF k > Len(rows) THEN [li |-> k, lines |-> built]
    ELSE IF rows[k].Item # "" THEN [li |-> k, lines |-> built]
    ELSE IF rows[k].Description = "" THEN ScanLines(rows, k + 1, built)
    ELSE ScanLines(rows, k + 1, Append(built, DescriptionLine(rows[k])))

\* ------------------------------------------------------------------ paths
\* a path is a sequence of one-character strings
output_dir == << "i", "n", "v", "o", "i", "c", "e", "s" >>

\* os.path.join(output_dir, file_name) for a relative file_name
join(dir, name) == dir \o << "/" >> \o name

\* str(counter) of a non-negative integer
RECURSIVE DecStr(_)
DecStr(n) ==
    IF n < 10 THEN << Digit[n + 1] >>
    ELSE DecStr(n \div 10) \o << Digit[(n % 10) + 1] >>

\* p.rfind(c): the last index of character c in p, 0 when there is none
rfind(p, c) ==
    LET hits == { i \in 1..Len(p) : p[i] = c }
    IN IF hits = {} THEN 0 ELSE CHOOSE i \in hits : \A j \in hits : j <= i

\* os.path.splitext: the extension starts at the last dot of the last path
\* component, unless that component has only dots before it
splitext(p) ==
    LET sepIndex == rfind(p, "/")
        dotIndex == rfind(p, ".")
        named == \E i \in (sepIndex + 1)..(dotIndex - 1) : p[i] # "."
    IN IF dotIndex > sepIndex /\ named
       THEN [base |-> SubSeq(p, 1, dotIndex - 1), ext |-> SubSeq(p, dotIndex, Len(p))]
       ELSE [base |-> p, ext |-> << >>]

\* a variant of NumberedPath that numbers after the extension
SuffixedPath(base, counter, ext) ==
    base \o ext \o << "(" >> \o DecStr(counter) \o << ")" >>

\* f"{base}({counter}){ext}"
NumberedPath(base, counter, ext) ==
    base \o << "(" >> \o DecStr(counter) \o << ")" >> \o ext

\* the while loop of get_unique_filename, from `counter` on
RECURSIVE ProbeFrom(_, _, _, _)
ProbeFrom(base, ext, counter, existing) ==
    IF NumberedPath(base, counter, ext) \notin existing
    THEN NumberedPath(base, counter, ext)
    ELSE ProbeFrom(base, ext, counter + 1, existing)

\* a variant of get_unique_filename that never renames
SamePath(file_path, existing) == file_path

\* get_unique_filename(file_path) with `existing` the paths os.path.exists
\* reports
get_unique_filename(file_path, existing) ==
    IF file_path \notin existing THEN file_path
    ELSE LET s == splitext(file_path)
         IN ProbeFrom(s.base, s.ext, 1, existing)

\* the FileName column values the manifest offers
FileNames == { << "a", ".", "p" >>, << "a" >> }

\* files that may be in the output directory before the run
PriorFiles ==
    { join(output_dir, << "a", ".", "p" >>),
      join(output_dir, << "a", "(", "1", ")", ".", "p" >>) }

\* bytes of a file that was there before the run
OldBytes == << 0 >>
\* the PDF bytes the remote side serves
PdfBytes == << 1, 1 >>

\* the Id QBO gave the invoice with DocNumber k
IdOf(k) == k + NumInvoices

\* pdf_content: None, or bytes
NoContent == [is_none |-> TRUE, bytes |-> << >>]
Content(b) == [is_none |-> FALSE, bytes |-> b]

\* ------------------------------------------------------------------- Init
Init ==
    /\ script \in {"import", "download"}
    /\ pc = "start"
    /\ exit_code = None
    /\ token_file \in InitialTokenFiles
    /\ CONFIG = EmptyConfig
    /\ client = NoClient
    /\ issued = 1
    /\ remote = Unobserved
    /\ total = 0
    /\ idx = 0
    /\ inv_no = None
    /\ data = NoData
    /\ file_name = << >>
    /\ attempt = 1
    /\ resume = "none"
    /\ li = 0
    /\ lines = << >>
    /\ payload = << >>
    /\ success = 0
    /\ status = [i \in 1..NumInvoices |-> "pending"]
    /\ retried = [i \in 1..NumInvoices |-> FALSE]
    /\ rec_refresh = 0
    /\ refresh_count = 0
    /\ last_op = NoOp
    /\ abort_cause = "none"
    /\ summaries = 0
    /\ invoice_id = None
    /\ pdf_content = NoContent
    /\ full_path = << >>
    /\ unique_path = << >>
    /\ fs \in { [p \in S |-> OldBytes] : S \in SUBSET PriorFiles }
    /\ allocated = {}
    /\ only_required \in BOOLEAN
    /\ auto_fill_qty_rate \in BOOLEAN
    /\ (script = "download" => ~only_required /\ ~auto_fill_qty_rate)
    /\ (script = "import" => fs = [p \in {} |-> OldBytes])

\* ------------------------------------------------------- shared fragments
\* a remote operation is issued
Issue(kind, key, arg, result, tok) ==
    last_op' = Op(kind, key, arg, result, tok)

\* a variant of Break that gives up the record and goes on with the loop
BreakRecord(cause) ==
    /\ abort_cause' = cause
    /\ pc' = "loop"
    /\ inv_no' = None
    /\ data' = NoData
    /\ file_name' = << >>
    /\ li' = 0
    /\ lines' = << >>

\* `break` out of the record loop (import 362, 368, 372, 387; download 197,
\* 204, 214, 221); the record and the lines built for it are not read again
Break(cause) ==
    /\ abort_cause' = cause
    /\ pc' = "finish"
    /\ inv_no' = None
    /\ data' = NoData
    /\ file_name' = << >>
    /\ li' = 0
    /\ lines' = << >>

\* the loop was left by break
aborted == abort_cause # "none"

\* the loop was left because the refresh did not go through
RefreshFailures == {"grant", "write", "confirm", "reload", "rebuild"}

\* sys.exit(1)
Exit1 ==
    /\ pc' = "exit"
    /\ exit_code' = 1


\* ----------------------------------------------------------------- import
\* main() of qbo_invoice_import.py up to the call of process_invoices
ImportMain ==
    /\ pc = "start"
    /\ script = "import"
    /\ \E env_ok \in BOOLEAN, csv_exists \in BOOLEAN, ctor_ok \in BOOLEAN,
          n \in 0..NumInvoices :
         LET loaded == load_tokens_ok(token_file)
             cfg == IF env_ok /\ loaded THEN LoadedConfig(token_file) ELSE CONFIG
             c == ImportClient(cfg, ctor_ok)
         IN /\ CONFIG' = cfg
            /\ IF ~env_ok \/ ~loaded \/ ~csv_exists \/ c = NoClient
               THEN Exit1 /\ UNCHANGED <<client, total, idx>>
               ELSE /\ client' = c
                    /\ total' = n
                    /\ idx' = 1
                    /\ pc' = "loop"
                    /\ UNCHANGED exit_code
    /\ UNCHANGED <<token_file, issued, remote, inv_no, data, file_name, attempt,
                   resume, importVars, rec_refresh, refresh_count, last_op,
                   abort_cause, downloadVars, flagVars>>

\* what an import step leaves alone
importStepFrame ==
    <<credVars, flagVars, total, downloadVars, exit_code, summaries,
      refresh_count, rec_refresh, retried>>

\* the step moves on inside create_quickbooks_invoice
ImportStep(next_pc, k, built) ==
    /\ pc' = next_pc
    /\ li' = k
    /\ lines' = built
    /\ UNCHANGED <<idx, inv_no, data, file_name, attempt, resume, success, status,
                   abort_cause>>

\* a variant of ImportFinish that counts only what the first attempt created
ImportFinishFirstAttempt(result, st) ==
    /\ success' = IF result /\ attempt = 1 THEN success + 1 ELSE success
    /\ status' = [status EXCEPT ![idx] = st]
    /\ pc' = "loop"
    /\ idx' = idx + 1
    /\ inv_no' = None
    /\ data' = NoData
    /\ attempt' = 1
    /\ li' = 0
    /\ lines' = << >>
    /\ UNCHANGED <<file_name, resume, abort_cause>>

\* a variant of ImportFinish that counts every record that is over
ImportFinishCounted(result, st) ==
    /\ success' = success + 1
    /\ status' = [status EXCEPT ![idx] = st]
    /\ pc' = "loop"
    /\ idx' = idx + 1
    /\ inv_no' = None
    /\ data' = NoData
    /\ attempt' = 1
    /\ li' = 0
    /\ lines' = << >>
    /\ UNCHANGED <<file_name, resume, abort_cause>>

\* a variant of ImportFinish that refreshes and retries a record that failed
ImportFinishRetryFailed(result, st) ==
    IF st = "failed" /\ attempt = 1
    THEN /\ pc' = "refresh"
         /\ resume' = "exists"
         /\ li' = 0
         /\ lines' = << >>
         /\ UNCHANGED <<idx, inv_no, data, file_name, attempt, success, status,
                        abort_cause>>
    ELSE /\ success' = IF result THEN success + 1 ELSE success
         /\ status' = [status EXCEPT ![idx] = st]
         /\ pc' = "loop"
         /\ idx' = idx + 1
         /\ inv_no' = None
         /\ data' = NoData
         /\ attempt' = 1
         /\ li' = 0
         /\ lines' = << >>
         /\ UNCHANGED <<file_name, resume, abort_cause>>

\* create_quickbooks_invoice returned `result` (lines 350-355, 377-382), or
\* raised an exception other than AuthorizationException (388-391): the
\* record is over and the loop goes on
ImportFinish(result, st) ==
    /\ success' = IF result THEN success + 1 ELSE success
    /\ status' = [status EXCEPT ![idx] = st]
    /\ pc' = "loop"
    /\ idx' = idx + 1
    /\ inv_no' = None
    /\ data' = NoData
    /\ attempt' = 1
    /\ li' = 0
    /\ lines' = << >>
    /\ UNCHANGED <<file_name, resume, abort_cause>>

\* a variant of ImportRaise401 that refreshes after every 401
ImportRaise401Again ==
    /\ pc' = "refresh"
    /\ resume' = "exists"
    /\ li' = 0
    /\ lines' = << >>
    /\ UNCHANGED <<idx, inv_no, data, file_name, attempt, success, status,
                   abort_cause>>

\* a variant of ImportRaise401 that has counted the record before the 401
ImportRaise401Counted ==
    IF attempt = 1
    THEN /\ pc' = "refresh"
         /\ resume' = "exists"
         /\ li' = 0
         /\ lines' = << >>
         /\ success' = success + 1
         /\ UNCHANGED <<idx, inv_no, data, file_name, attempt, status, abort_cause>>
    ELSE /\ Break("expiry")
         /\ UNCHANGED <<idx, attempt, resume, success, status>>

\* AuthorizationException left create_quickbooks_invoice: the first attempt
\* goes to the refresh (356-360), the retry breaks the loop (383-387)
ImportRaise401 ==
    IF attempt = 1
    THEN /\ pc' = "refresh"
         /\ resume' = "exists"
         /\ li' = 0
         /\ lines' = << >>
         /\ UNCHANGED <<idx, inv_no, data, file_name, attempt, success, status,
                        abort_cause>>
    ELSE /\ Break("expiry")
         /\ UNCHANGED <<idx, attempt, resume, success, status>>

\* lines 287-328 after row k - 1: local work up to the next item lookup, the
\* empty-lines check, or the save
AfterLine(k, built) ==
    LET s == ScanLines(data.LineItems, k, built)
    IN IF s.li <= Len(data.LineItems) THEN ImportStep("item", s.li, s.lines)
       ELSE IF s.lines = << >> THEN ImportFinish(FALSE, "failed")
       ELSE ImportStep("save", s.li, s.lines)

\* the bearer token a client call carries
ClientToken == client.auth_client.access_token

\* for inv_no, data in invoices_data.items() (346-347).  The keys of the
\* dict are pairwise different, so from here to the end of the record the
\* run reads and writes the remote invoices of this DocNumber only: n is how
\* many there are when the record starts.
ImportNext ==
    /\ pc = "loop"
    /\ script = "import"
    /\ IF idx <= total
       THEN \E d \in InvoiceData, n \in {0, 1} :
              /\ inv_no' = idx
              /\ data' = d
              /\ remote' = n
              /\ pc' = "exists"
       ELSE /\ pc' = "finish"
            /\ UNCHANGED <<inv_no, data, remote>>
    /\ attempt' = 1
    /\ li' = 0
    /\ lines' = << >>
    /\ payload' = << >>
    /\ last_op' = NoOp
    /\ resume' = "none"
    /\ rec_refresh' = 0
    /\ UNCHANGED <<credVars, flagVars, total, downloadVars, file_name, exit_code,
                   idx, success, status, retried, summaries, refresh_count, abort_cause>>

\* invoice_number_exists (256-264) and its use (270-272)
CheckExists ==
    /\ pc = "exists"
    /\ \E out \in {"ok", "error", "auth"} :
         LET found == remote > 0
             res == IF out = "ok" THEN (IF found THEN "found" ELSE "absent") ELSE out
         IN /\ Issue("exists", inv_no, 0, res, ClientToken)
            /\ IF out = "auth" THEN ImportRaise401
               ELSE IF out = "ok" /\ found THEN ImportFinish(FALSE, "skipped")
               ELSE ImportStep("customer", 0, << >>)
    /\ UNCHANGED <<importStepFrame, remote, payload>>

\* find_or_create_customer (199-211) and its use (273-286)
FindCustomer ==
    /\ pc = "customer"
    /\ \E out \in {"found", "missing", "error", "auth"} :
         /\ Issue("customer", inv_no, 0, out, ClientToken)
         /\ IF out = "auth" THEN ImportRaise401
            ELSE IF out # "found" THEN ImportFinish(FALSE, "failed")
            ELSE IF ~only_required /\ data.Terms # "" THEN ImportStep("term", 0, << >>)
            ELSE AfterLine(1, << >>)
    /\ UNCHANGED <<importStepFrame, remote, payload>>

\* find_sales_term_by_name (225-239) and its use (283-286): a term that is
\* not found is left out of the invoice
FindTerm ==
    /\ pc = "term"
    /\ \E out \in {"found", "missing", "error", "auth"} :
         /\ Issue("term", inv_no, 0, out, ClientToken)
         /\ IF out = "auth" THEN ImportRaise401 ELSE AfterLine(1, << >>)
    /\ UNCHANGED <<importStepFrame, remote, payload>>

\* find_or_create_item (212-224) for row li and the line built from it
\* (291-310)
FindItem ==
    /\ pc = "item"
    /\ \E out \in {"found", "missing", "error", "auth"} :
         /\ Issue("item", inv_no, li, out, ClientToken)
         /\ IF out = "auth" THEN ImportRaise401
            ELSE IF out # "found" THEN ImportFinish(FALSE, "failed")
            ELSE AfterLine(li + 1,
                           Append(lines, ItemLine(data.LineItems[li], only_required,
                                                  auto_fill_qty_rate)))
    /\ UNCHANGED <<importStepFrame, remote, payload>>

\* invoice.save(qb=client) (328-334): the remote side creates the invoice
\* ("ok"), rejects the request ("error"), answers 401 ("auth"), or creates
\* it and the caller still sees a 401 ("auth_applied")
SaveInvoice ==
    /\ pc = "save"
    /\ \E out \in {"ok", "error", "auth", "auth_applied"} :
         /\ Issue("save", inv_no, 0, out, ClientToken)
         /\ payload' = lines
         /\ remote' = IF out \in {"ok", "auth_applied"}
                      THEN remote + 1 ELSE remote
         /\ IF out \in {"auth", "auth_applied"} THEN ImportRaise401
            ELSE IF out = "ok" THEN ImportFinish(TRUE, "succeeded")
            ELSE ImportFinish(FALSE, "failed")
    /\ UNCHANGED importStepFrame

\* a variant of Finish that prints the summary only when the loop ran to its
\* end
FinishQuiet ==
    /\ pc = "finish"
    /\ pc' = "done"
    /\ exit_code' = 0
    /\ summaries' = IF script = "import" /\ ~aborted THEN summaries + 1 ELSE summaries
    /\ UNCHANGED <<credVars, flagVars, total, downloadVars, file_name, remote, idx, inv_no,
                   data, attempt, resume, li, lines, payload, success, status,
                   retried, rec_refresh, refresh_count, last_op, abort_cause>>

\* the end of main(): import prints the summary (393) and "Script
\* completed" (422), download prints "process complete" (254)
Finish ==
    /\ pc = "finish"
    /\ pc' = "done"
    /\ exit_code' = 0
    /\ summaries' = IF script = "import" THEN summaries + 1 ELSE summaries
    /\ UNCHANGED <<credVars, flagVars, total, downloadVars, file_name, remote, idx, inv_no,
                   data, attempt, resume, li, lines, payload, success, status,
                   retried, rec_refresh, refresh_count, last_op, abort_cause>>

\* ---------------------------------------------------------------- refresh
refreshFrame ==
    <<flagVars, total, downloadVars, remote, idx, resume, success, status,
      summaries>>

\* the record being processed stays as it is
sameRecord == <<inv_no, data, file_name, li, lines>>

\* the tokens of `c` after lines 33-34 with token pair n
SyncedClient(c, n) ==
    [c EXCEPT !.auth_client = [access_token |-> AccessOf(n), refresh_token |-> RefreshOf(n)],
              !.access_token = AccessOf(n),
              !.refresh_token = RefreshOf(n)]

\* CONFIG after lines 36-37 with token pair n
SyncedConfig(cfg, n) ==
    [cfg EXCEPT !.ACCESS_TOKEN = AccessOf(n), !.REFRESH_TOKEN = RefreshOf(n)]

\* a variant of token_data that saves the pair the grant replaced
StaleTokenData(cfg, n) == Tokens(AccessOf(n - 1), RefreshOf(n - 1), cfg.REALM_ID)

\* token_data of lines 39-43
token_data(cfg, n) == Tokens(AccessOf(n), RefreshOf(n), cfg.REALM_ID)

\* refresh_access_token up to the prompt (qb_auth.py 28-46, 53-56), which
\* starts the log of the record's operations over: the
\* grant is rejected ("grant_fail"), or it succeeds and then the token file
\* cannot be opened ("open_fail"), is left half written ("dump_fail") or is
\* written ("ok")
RefreshGrant ==
    /\ pc = "refresh"
    /\ refresh_count' = refresh_count + 1
    /\ rec_refresh' = rec_refresh + 1
    /\ \E out \in {"grant_fail", "open_fail", "dump_fail", "ok"} :
         IF out = "grant_fail"
         THEN Break("grant") /\ UNCHANGED credVars
         ELSE /\ issued' = issued + 1
              /\ client' = SyncedClient(client, issued + 1)
              /\ CONFIG' = SyncedConfig(CONFIG, issued + 1)
              /\ token_file' =
                   IF out = "open_fail" THEN token_file
                   ELSE IF out = "dump_fail" THEN Corrupt
                   ELSE token_data(CONFIG, issued + 1)
              /\ IF out = "ok"
                 THEN pc' = "prompt" /\ UNCHANGED <<abort_cause, sameRecord>>
                 ELSE Break("write")
    /\ last_op' = NoOp
    /\ payload' = << >>
    /\ UNCHANGED <<refreshFrame, attempt, retried, exit_code>>

\* the confirmation loop of refresh_access_token (qb_auth.py 47-56): "ok"
\* returns True, any other answer asks again, end of input returns False
Prompt ==
    /\ pc = "prompt"
    /\ \E response \in {"ok", "other", "eof"} :
         IF response = "ok" THEN pc' = "reload" /\ UNCHANGED <<abort_cause, sameRecord>>
         ELSE IF response = "eof" THEN Break("confirm")
         ELSE UNCHANGED <<pc, abort_cause, sameRecord>>
    /\ UNCHANGED <<refreshFrame, payload, last_op, credVars, attempt, retried, exit_code,
                   refresh_count, rec_refresh>>

\* while the script waits at the prompt the operator, told to upload
\* qb_tokens.json, moves the file away instead of copying it
OperatorMovesFile ==
    /\ pc = "prompt"
    /\ token_file.state = "ok"
    /\ token_file' = NoFile
    /\ UNCHANGED <<refreshFrame, sameRecord, payload, last_op, CONFIG, client,
                   issued, pc, abort_cause, attempt, retried, exit_code,
                   refresh_count, rec_refresh>>

\* load_tokens and initialize_quickbooks_client after a refresh that
\* returned True, and the start of the retry (import 366-375; download
\* 170-177, 196-199, 213-216).  json.load of a file that is not JSON raises:
\* the import script dies with the traceback, the download script catches
\* it in its outer handler (239-240)
Reload ==
    /\ pc = "reload"
    /\ \E ctor_ok \in BOOLEAN :
         IF token_file.state = "missing"
         THEN Break("reload") /\ UNCHANGED <<CONFIG, client, attempt, retried, exit_code>>
         ELSE IF token_file.state = "corrupt"
         THEN /\ IF script = "import" THEN Exit1
                 ELSE pc' = "finish" /\ UNCHANGED exit_code
              /\ UNCHANGED <<CONFIG, client, attempt, retried, abort_cause, sameRecord>>
         ELSE LET cfg == LoadedConfig(token_file)
                  c == initialize_quickbooks_client(cfg, ctor_ok)
              IN /\ CONFIG' = ConfigAfterInit(cfg, ctor_ok)
                 /\ IF c = NoClient
                    THEN /\ Break("rebuild")
                         /\ client' = IF script = "import" THEN NoClient ELSE client
                         /\ UNCHANGED <<attempt, retried, exit_code>>
                    ELSE /\ client' = c
                         /\ pc' = resume
                         /\ attempt' = 2
                         /\ retried' = IF script = "import"
                                       THEN [retried EXCEPT ![idx] = TRUE]
                                       ELSE retried
                         /\ UNCHANGED <<abort_cause, exit_code, sameRecord>>
    /\ UNCHANGED <<refreshFrame, payload, last_op, token_file, issued,
                   refresh_count, rec_refresh>>

\* --------------------------------------------------------------- download
\* main() of qbo_invoice_download.py up to the call of process_invoices
DownloadMain ==
    /\ pc = "start"
    /\ script = "download"
    /\ \E env_ok \in BOOLEAN, ctor_ok \in BOOLEAN :
         LET loaded == load_tokens_ok(token_file)
             cfg == IF env_ok /\ loaded THEN LoadedConfig(token_file) ELSE CONFIG
             c == DownloadClient(cfg, ctor_ok)
         IN IF ~env_ok \/ ~loaded
            THEN Exit1 /\ CONFIG' = cfg /\ UNCHANGED client
            ELSE /\ CONFIG' = DownloadConfigAfterInit(cfg, ctor_ok)
                 /\ IF c = NoClient
                    THEN Exit1 /\ UNCHANGED client
                    ELSE client' = c /\ pc' = "open" /\ UNCHANGED exit_code
    /\ UNCHANGED <<token_file, issued, remote, total, idx, inv_no, data, file_name,
                   attempt, resume, importVars, rec_refresh, refresh_count, last_op, abort_cause, downloadVars, flagVars>>

downloadStepFrame ==
    <<credVars, flagVars, total, exit_code, payload, success, status, retried,
      summaries, refresh_count, rec_refresh>>

\* open(csv_path) and csv.DictReader (179-181); a missing file is reported
\* and process_invoices returns (237-238)
DownloadOpen ==
    /\ pc = "open"
    /\ \E csv_exists \in BOOLEAN, n \in 0..NumRows :
         IF csv_exists
         THEN total' = n /\ idx' = 1 /\ pc' = "loop"
         ELSE pc' = "finish" /\ UNCHANGED <<total, idx>>
    /\ UNCHANGED <<credVars, flagVars, exit_code, data, importVars, refresh_count,
                   rec_refresh, downloadVars, file_name, remote, inv_no, attempt, resume,
                   last_op, abort_cause>>

\* a variant of DownloadContinue that falls through to the file write
DownloadFallThrough ==
    /\ pc' = "allocate"
    /\ UNCHANGED <<idx, attempt, resume, abort_cause, sameRecord>>

\* `continue`, or the end of the loop body: on to the next row
DownloadContinue ==
    /\ pc' = "loop"
    /\ idx' = idx + 1
    /\ UNCHANGED <<attempt, resume, abort_cause, sameRecord>>

\* AuthorizationException from get_invoice_id or download_invoice_pdf: the
\* first attempt of the step goes to the refresh, its retry breaks the loop
DownloadRaise401(step) ==
    /\ IF attempt = 1
       THEN pc' = "refresh" /\ resume' = step /\ UNCHANGED <<abort_cause, sameRecord>>
       ELSE Break("expiry") /\ UNCHANGED resume
    /\ UNCHANGED <<idx, attempt>>

\* for row in reader (182-189): rows without InvoiceNo or FileName are
\* skipped.  The locals of the previous row are dead here (each is assigned
\* again before it is read) and start over as None.
DownloadNext ==
    /\ pc = "loop"
    /\ script = "download"
    /\ IF idx <= total
       THEN \E no \in ManifestKeys \cup {None}, name \in FileNames \cup { << >> }, n \in {0, 1} :
              /\ inv_no' = no
              /\ file_name' = name
              /\ IF no = None \/ name = << >>
                 THEN pc' = "loop" /\ idx' = idx + 1 /\ UNCHANGED remote
                 ELSE pc' = "lookup" /\ remote' = n /\ UNCHANGED idx
       ELSE /\ pc' = "finish"
            /\ UNCHANGED <<inv_no, file_name, remote, idx>>
    /\ attempt' = 1
    /\ last_op' = NoOp
    /\ invoice_id' = None
    /\ pdf_content' = NoContent
    /\ full_path' = << >>
    /\ unique_path' = << >>
    /\ resume' = "none"
    /\ rec_refresh' = 0
    /\ UNCHANGED <<credVars, flagVars, total, exit_code, data, importVars,
                   refresh_count,
                   fs, allocated, abort_cause>>

\* get_invoice_id (112-124) and its use (191-206); a found invoice leads to
\* the fetch, which starts with a first attempt of its own
LookupInvoice ==
    /\ pc = "lookup"
    /\ \E out \in {"ok", "error", "auth"} :
         LET found == remote > 0
             res == IF out = "ok" THEN (IF found THEN "found" ELSE "absent") ELSE out
         IN /\ Issue("lookup", inv_no, 0, res, ClientToken)
            /\ IF out = "auth"
               THEN DownloadRaise401("lookup") /\ UNCHANGED invoice_id
               ELSE IF out = "ok" /\ found
               THEN /\ invoice_id' = IdOf(inv_no)
                    /\ pc' = "fetch"
                    /\ attempt' = 1
                    /\ UNCHANGED <<idx, resume, abort_cause, sameRecord>>
               ELSE invoice_id' = None /\ DownloadContinue
    /\ UNCHANGED <<downloadStepFrame, remote, pdf_content, full_path,
                   unique_path, fs, allocated>>

\* download_invoice_pdf (125-146), which sends CONFIG's access token, and
\* its use (208-223)
FetchPdf ==
    /\ pc = "fetch"
    /\ \E out \in {"ok", "empty", "error", "auth"} :
         /\ Issue("fetch", invoice_id, 0, out, CONFIG.ACCESS_TOKEN)
         /\ IF out = "auth"
            THEN DownloadRaise401("fetch") /\ UNCHANGED pdf_content
            ELSE IF out = "ok"
            THEN /\ pdf_content' = Content(PdfBytes)
                 /\ pc' = "allocate"
                 /\ UNCHANGED <<idx, attempt, resume, abort_cause, sameRecord>>
            ELSE /\ pdf_content' = IF out = "empty" THEN Content(<< >>) ELSE NoContent
                 /\ DownloadContinue
    /\ UNCHANGED <<downloadStepFrame, remote, invoice_id, full_path,
                   unique_path, fs, allocated>>

\* os.makedirs, os.path.join and get_unique_filename (225-230); an error of
\* makedirs ends the loop through the outer handler (239-240)
AllocatePath ==
    /\ pc = "allocate"
    /\ \E mk_ok \in BOOLEAN :
         IF mk_ok
         THEN /\ full_path' = join(output_dir, file_name)
              /\ unique_path' = get_unique_filename(join(output_dir, file_name), DOMAIN fs)
              /\ allocated' = allocated \cup {unique_path'}
              /\ pc' = "write"
         ELSE /\ pc' = "finish"
              /\ UNCHANGED <<full_path, unique_path, allocated>>
    /\ UNCHANGED <<downloadStepFrame, sameRecord, remote, idx,
                   attempt, resume, abort_cause, invoice_id, pdf_content, fs, last_op>>

\* the files after open(path, "wb") and write(bytes)
Written(files, path, bytes) ==
    [p \in DOMAIN files \cup {path} |-> IF p = path THEN bytes ELSE files[p]]

\* open(unique_path, "wb") and write (231-236): written ("ok"), open fails
\* and creates nothing ("open_fail"), or the write stops after the first
\* part ("write_fail")
WritePdf ==
    /\ pc = "write"
    /\ \E out \in {"ok", "open_fail", "write_fail"} :
         fs' = IF out = "ok" THEN Written(fs, unique_path, pdf_content.bytes)
               ELSE IF out = "write_fail"
               THEN Written(fs, unique_path, SubSeq(pdf_content.bytes, 1, 1))
               ELSE fs
    /\ DownloadContinue
    /\ UNCHANGED <<downloadStepFrame, remote, invoice_id, pdf_content, full_path,
                   unique_path, allocated, last_op>>

\* ------------------------------------------------------------------- Next
Next ==
    \/ ImportMain
    \/ ImportNext
    \/ CheckExists
    \/ FindCustomer
    \/ FindTerm
    \/ FindItem
    \/ SaveInvoice
    \/ RefreshGrant
    \/ Prompt
    \/ OperatorMovesFile
    \/ Reload
    \/ DownloadMain
    \/ DownloadOpen
    \/ DownloadNext
    \/ LookupInvoice
    \/ FetchPdf
    \/ AllocatePath
    \/ WritePdf
    \/ Finish

Spec == Init /\ [][Next]_vars

\* ----------------------------------------------------------------- claims
\* a remote operation of the given kind is issued in this step
Issues(kind) == last_op' # last_op /\ last_op'.kind = kind

\* some remote operation is issued in this step
IssuesAny == last_op' # last_op /\ last_op'.kind # "none"

\* the outcomes by which the remote side signals an expired credential
Expired == {"auth", "auth_applied"}

\* C1: in the import batch Invoice.save is never invoked for an invoice
\* number that is present on the remote side, so no invoice number ends up
\* with more than one remote record.
C1_NoCreateForPresentKey ==
    [][Issues("save") => (remote = 0 /\ remote' <= 1)]_vars

\* C2: for each input record, of the import and of the download, the refresh
\* is attempted at most once.
C2_OneRefreshPerRecord == rec_refresh <= 1

\* C3: when a step of the retry that follows a successful refresh is answered
\* with an expired credential again, the batch is aborted in that step
\* without another refresh, and once it is aborted this way no remote
\* operation is issued and no refresh is made any more.
C3_SecondExpiryAborts ==
    [][/\ (IssuesAny /\ last_op'.attempt = 2 /\ last_op'.result \in Expired)
            => /\ abort_cause' = "expiry"
               /\ pc' = "finish"
               /\ refresh_count' = refresh_count
       /\ abort_cause = "expiry"
            => /\ last_op' = last_op
               /\ refresh_count' = refresh_count
               /\ abort_cause' = abort_cause
               /\ pc' = "done"]_vars

\* a run that gave up on the second expiry while records were left
C3_Witness ==
    /\ pc = "done"
    /\ abort_cause = "expiry"
    /\ last_op.attempt = 2
    /\ last_op.result \in Expired
    /\ refresh_count = 1
    /\ idx < total

\* the number of records that succeeded
Succeeded == Cardinality({i \in 1..NumInvoices : status[i] = "succeeded"})

\* C4: when the refresh fails (grant rejected, token file not written,
\* confirmation not given, tokens not reloaded, client not rebuilt) the loop
\* is left in that step with the grant invoked once for the expiry; from then
\* on no grant and no remote operation follows, and the import's success
\* counter, which the summary prints, is the number of records that
\* succeeded, the current record not among them.
C4_RefreshFailureAborts ==
    [][/\ (abort_cause = "none" /\ abort_cause' \in RefreshFailures)
            => /\ pc' = "finish"
               /\ ~IssuesAny
               /\ refresh_count' <= refresh_count + 1
               /\ (script = "import" => rec_refresh' = 1)
       /\ abort_cause \in RefreshFailures
            => /\ ~IssuesAny
               /\ refresh_count' = refresh_count
               /\ abort_cause' = abort_cause
               /\ pc' = "done"
               /\ success' = success
               /\ status' = status
       /\ (abort_cause' \in RefreshFailures /\ script = "import")
            => /\ success' = Succeeded'
               /\ status'[idx'] = "pending"
               /\ summaries' = IF pc' = "done" THEN 1 ELSE 0]_vars

\* an import that stopped at its second record because the client could not
\* be rebuilt, after the first record succeeded
C4_Witness ==
    /\ script = "import"
    /\ pc = "done"
    /\ abort_cause = "rebuild"
    /\ total = 3
    /\ idx = 2
    /\ success = 1
    /\ status[1] = "succeeded"

\* C5: every remote operation issued after a refresh carries the access
\* token of the last grant, and that token is the one in the token file, in
\* CONFIG and in the client.
C5_MemoryEqualsDisk ==
    (issued > 1 /\ last_op.kind # "none")
        => /\ token_file.state = "ok"
           /\ token_file.access_token = AccessOf(issued)
           /\ token_file.refresh_token = RefreshOf(issued)
           /\ last_op.token = token_file.access_token
           /\ ClientToken = token_file.access_token
           /\ client.auth_client.refresh_token = token_file.refresh_token
           /\ client.refresh_token = token_file.refresh_token
           /\ CONFIG.ACCESS_TOKEN = token_file.access_token
           /\ CONFIG.REFRESH_TOKEN = token_file.refresh_token

\* a save issued in the retry with the refreshed token
C5_Witness ==
    /\ issued = 2
    /\ last_op.kind = "save"
    /\ last_op.attempt = 2
    /\ last_op.token = AccessOf(2)
    /\ token_file.access_token = AccessOf(2)

\* the run of the scenario: three records, all succeeded, only the second
\* one through the retry
C6_Scenario ==
    /\ script = "import"
    /\ pc = "done"
    /\ total = 3
    /\ \A i \in 1..3 : status[i] = "succeeded"
    /\ \A i \in 1..3 : retried[i] = (i = 2)

\* C6: an import of three records that all succeed, the second one in the
\* retry after a refresh, ends with the summary 3/3, printed once, after
\* exactly one refresh.
C6_ThreeOfThree ==
    C6_Scenario
        => /\ success = 3
           /\ refresh_count = 1
           /\ issued = 2
           /\ summaries = 1
           /\ exit_code = 0
           /\ abort_cause = "none"

C6_Witness == C6_Scenario /\ success = 3 /\ refresh_count = 1

\* base(k)ext
C7_Numbered(b, k, e) == b \o << "(" >> \o DecStr(k) \o << ")" >> \o e

\* b and e are the two parts of p, e its extension: empty when the file name
\* has no dot, else what starts at the last dot
C7_Split(p, b, e) ==
    /\ b \o e = p
    /\ IF \E i \in 1..Len(p) : p[i] = "." /\ \A j \in i..Len(p) : p[j] # "/"
       THEN /\ e # << >>
            /\ e[1] = "."
            /\ \A i \in 2..Len(e) : e[i] \notin {".", "/"}
       ELSE e = << >>

\* r is the answer for path p when the paths in `existing` exist
C7_Answer(p, existing, r) ==
    IF p \notin existing THEN r = p
    ELSE \E n \in 0..Len(p) :
           LET b == SubSeq(p, 1, n)
               e == SubSeq(p, n + 1, Len(p))
           IN /\ C7_Split(p, b, e)
              /\ \E k \in 1..(Cardinality(existing) + 1) :
                   /\ r = C7_Numbered(b, k, e)
                   /\ r \notin existing
                   /\ \A j \in 1..(k - 1) : C7_Numbered(b, j, e) \in existing

\* the step in which get_unique_filename is called
Allocates == pc = "allocate" /\ pc' = "write"

C7_ExamplePath == join(output_dir, << "a", "(", "2", ")", ".", "p" >>)

\* C7: get_unique_filename returns the path itself when it does not exist,
\* else base(k)ext for the smallest k >= 1 that does not exist, ext empty
\* for a path without extension (a.p and a(1).p existing and a(2).p not
\* give a(2).p), and
\* the call leaves the files as they are.
C7_UniqueFilename ==
    [][Allocates
         => /\ C7_Answer(full_path', DOMAIN fs, unique_path')
            /\ ((PriorFiles \subseteq DOMAIN fs /\ C7_ExamplePath \notin DOMAIN fs
                 /\ file_name = << "a", ".", "p" >>)
                  => unique_path' = C7_ExamplePath)
            /\ fs' = fs]_vars

\* a.p and a(1).p were there and a(2).p was allocated
C7_Witness ==
    /\ pc = "write"
    /\ PriorFiles \subseteq DOMAIN fs
    /\ unique_path = C7_ExamplePath

\* C8: a download run writes only to paths that do not exist when they are
\* written, and every file that exists keeps its content.
C8_NoOverwrite ==
    [][/\ \A p \in DOMAIN fs : p \in DOMAIN fs' /\ fs'[p] = fs[p]
       /\ fs' # fs => unique_path \notin DOMAIN fs]_vars

\* a PDF was written next to the file that had the name asked for
C8_Witness ==
    /\ pc = "loop"
    /\ full_path \in DOMAIN fs
    /\ fs[full_path] = OldBytes
    /\ unique_path # full_path
    /\ unique_path \in DOMAIN fs
    /\ fs[unique_path] = PdfBytes

\* C9: a name allocated for a destination that exists differs from the
\* destination and from every name allocated earlier in the run.
C9_FreshName ==
    [][(Allocates /\ full_path' \in DOMAIN fs)
         => /\ unique_path' # full_path'
            /\ unique_path' \notin allocated]_vars

\* C10: when the existence check finds the invoice number, the record is
\* over in that step as skipped: nothing is looked up or saved for it, the
\* counter, the remote invoices and the refresh count stay, and the loop
\* goes on with the next record.
C10_ExistingIsSkipped ==
    [][(Issues("exists") /\ last_op'.result = "found")
         => /\ status' = [status EXCEPT ![idx] = "skipped"]
            /\ pc' = "loop"
            /\ idx' = idx + 1
            /\ success' = success
            /\ remote' = remote
            /\ payload' = payload
            /\ refresh_count' = refresh_count
            /\ rec_refresh' = rec_refresh
            /\ abort_cause' = abort_cause]_vars

\* the first record was skipped because its number was found
C10_Witness ==
    /\ script = "import"
    /\ pc = "loop"
    /\ idx = 2
    /\ status[1] = "skipped"
    /\ last_op.kind = "exists"
    /\ last_op.result = "found"
    /\ remote = 1
    /\ success = 0

\* the download script found no download.csv: the loop was never entered
\* (idx is set when the file is opened)
InputMissing == script = "download" /\ pc \in {"finish", "done"} /\ idx = 0

\* C11: a run that was aborted by a refresh failure or by a second expiry,
\* or that could not start (token file, client, or input file missing), ends
\* with a non-zero exit status.
C11_AbortExitsNonZero ==
    (pc \in {"done", "exit"} /\ (aborted \/ InputMissing \/ pc = "exit"))
        => exit_code # 0

\* C12: a result other than an expired credential never leads to a refresh,
\* and the loop is left before the last record only by a refresh failure or
\* a second expiry.
C12_OnlyAuthStopsTheLoop ==
    [][/\ (IssuesAny /\ last_op'.result \notin Expired)
            => pc' \notin {"refresh", "finish"}
       /\ (pc # "finish" /\ pc' = "finish" /\ idx' >= 1 /\ idx' <= total')
            => abort_cause' # "none"]_vars

\* C13: the token file never holds anything but a complete credential.
C13_NoPartialTokenFile == token_file.state # "corrupt"

\* the session initialize_quickbooks_client builds from the token file
RebuiltSession ==
    IF script = "import" THEN ImportClient(LoadedConfig(token_file), TRUE)
    ELSE DownloadClient(LoadedConfig(token_file), TRUE)

\* C14: every remote operation issued after a refresh, in the retry and in
\* all later records, goes through the client rebuilt from the token file
\* and carries the access token of the last grant.
C14_RebuiltSessionUsed ==
    [][(IssuesAny /\ issued > 1)
         => /\ client = RebuiltSession
            /\ token_file.access_token = AccessOf(issued)
            /\ last_op'.token = AccessOf(issued)
            /\ client' = client]_vars

\* an operation of the record after the one that was retried
C14_Witness ==
    /\ idx = 2
    /\ retried[1]
    /\ issued = 2
    /\ last_op.kind = "customer"
    /\ last_op.attempt = 1
    /\ last_op.token = AccessOf(2)
    /\ client = RebuiltSession

\* C15: the create of a retry is issued only after the retry's existence
\* check, and only for an invoice number with no remote invoice, so that a
\* create of the first attempt that took effect is not repeated.
C15_RetryChecksFirst ==
    [][(Issues("save") /\ attempt = 2)
         => /\ last_op.kind # "none"
            /\ remote = 0
            /\ remote' <= 1]_vars

\* C16: the number of refresh invocations of a run is bounded by the number
\* of its input records.
C16_RefreshesBoundedByRecords == refresh_count <= total

\* the states a record ends in
Terminal == {"succeeded", "skipped", "failed"}

\* C17: in the import the success counter is the number of records whose
\* create returned success, it grows by one at most per record and only in
\* the step in which a save of that record returns, it never exceeds the
\* number of records started, and a run that was not aborted ends with every
\* record in one terminal state and one summary of that counter over the
\* number of input records.
C17_EveryRecordAccounted ==
    [][script = "import"
         => /\ success' = Succeeded'
            /\ success' <= idx' /\ success' <= total'
            /\ \A i \in 1..NumInvoices :
                 /\ status'[i] # "pending" => (i < idx' /\ i <= total')
                 /\ status[i] # "pending" => status'[i] = status[i]
            /\ success' \in {success, success + 1}
            /\ success' # success
                 => /\ Issues("save") /\ last_op'.result = "ok"
                    /\ status[idx] = "pending" /\ status'[idx] = "succeeded"
            /\ (pc' = "done" /\ ~aborted')
                 => /\ idx' = total' + 1
                    /\ \A i \in 1..total' : status'[i] \in Terminal
                    /\ summaries' = 1]_vars

\* an import that was not aborted and ended with one record of each kind,
\* the first one created in its retry
C17_Witness ==
    /\ script = "import"
    /\ pc = "done"
    /\ ~aborted
    /\ total = 3
    /\ status[1] = "succeeded" /\ retried[1]
    /\ status[2] = "skipped"
    /\ status[3] = "failed"
    /\ success = 1
    /\ summaries = 1

\* the rows of the record for which a line is forwarded: those that name an
\* item or have a description
ForwardedRows ==
    LET Kept(r) == r.Item # "" \/ r.Description # ""
    IN SelectSeq(data.LineItems, Kept)

\* the cell holds no value
Absent(cell) == \A i \in 1..Len(cell) : cell[i] = " "

\* what a line carries for a cell of its row: nothing for a cell without
\* value, else the cell's number
Carried(cell) == IF Absent(cell) THEN None ELSE float(strip(cell))

\* C18 as stated: every line forwarded to Invoice.save carries no quantity
\* when the quantity cell of its row is absent and the cell's value when it
\* is present, and the same for the rate.
C18_AbsencePreserved ==
    [][Issues("save")
         => /\ Len(payload') = Len(ForwardedRows)
            /\ \A j \in 1..Len(ForwardedRows) :
                 /\ payload'[j].Qty = Carried(ForwardedRows[j].ItemQuantity)
                 /\ payload'[j].UnitPrice = Carried(ForwardedRows[j].ItemRate)]_vars

\* C18 amended: a line for a row that names an item carries the value of a
\* present quantity or rate cell; without --auto-fill-qty-rate it carries
\* nothing for an absent cell, with it a number is filled in; a
\* description-only line carries neither quantity nor rate.
C18_AbsencePreservedUnlessFilled ==
    [][Issues("save")
         => /\ Len(payload') = Len(ForwardedRows)
            /\ \A j \in 1..Len(ForwardedRows) :
                 LET row == ForwardedRows[j]
                     line == payload'[j]
                 IN IF row.Item = ""
                    THEN line.Qty = None /\ line.UnitPrice = None
                    ELSE /\ ~Absent(row.ItemQuantity)
                              => line.Qty = Carried(row.ItemQuantity)
                         /\ ~Absent(row.ItemRate)
                              => line.UnitPrice = Carried(row.ItemRate)
                         /\ ~auto_fill_qty_rate
                              => /\ line.Qty = Carried(row.ItemQuantity)
                                 /\ line.UnitPrice = Carried(row.ItemRate)
                         /\ auto_fill_qty_rate
                              => line.Qty # None /\ line.UnitPrice # None]_vars

\* without the option, a saved item line with a quantity of 0 and no rate
C18_Witness ==
    /\ last_op.kind = "save"
    /\ ~auto_fill_qty_rate
    /\ Len(payload) = 1
    /\ payload[1].DetailType = "SalesItemLineDetail"
    /\ payload[1].Qty = 0
    /\ payload[1].UnitPrice = None

\* C19: a remote step that returns a normal result is not issued again and
\* leads to no refresh and no retry; the refresh is invoked only in the step
\* right after an operation that was answered with an expired credential;
\* and a second attempt starts only from the reload of a refresh that went
\* through, for a step whose first attempt was answered that way.
C19_RetryOnlyAfterExpiry ==
    [][/\ (IssuesAny /\ last_op'.result \notin Expired)
            => /\ pc' # "refresh"
               /\ refresh_count' = refresh_count
               /\ attempt' \in {1, attempt}
               /\ retried' = retried
               /\ ~(pc' = pc /\ idx' = idx /\ li' = li)
       /\ pc' = "refresh"
            => IssuesAny /\ last_op'.result \in Expired /\ last_op'.attempt = 1
       /\ refresh_count' # refresh_count
            => /\ pc = "refresh"
               /\ last_op.result \in Expired
               /\ refresh_count' = refresh_count + 1
       /\ (attempt' = 2 /\ attempt = 1)
            => /\ pc = "reload"
               /\ pc' = resume
               /\ rec_refresh >= 1
               /\ token_file.state = "ok"
               /\ abort_cause' = "none"]_vars

\* an import record that failed in its first attempt without a refresh,
\* after a record that was retried
C19_Witness ==
    /\ script = "import"
    /\ pc = "loop"
    /\ idx = 3
    /\ retried[1] /\ ~retried[2]
    /\ status[2] = "failed"
    /\ last_op.kind = "save"
    /\ last_op.result = "error"
    /\ refresh_count = 1
    /\ rec_refresh = 0

\* C20: in the download the fetch is issued with the Id that the lookup of
\* the current row's invoice number returned; a file is written only for a
\* row whose fetch returned content that is not empty, at the path allocated
\* for it; a lookup that finds nothing or fails, or a fetch that fails or
\* returns nothing, writes no file and goes on with the next row.
C20_FetchUsesLookedUpHandle ==
    [][/\ (invoice_id' # invoice_id /\ invoice_id' # None)
            => /\ Issues("lookup")
               /\ last_op'.result = "found"
               /\ last_op'.key = inv_no
               /\ invoice_id' = IdOf(inv_no)
       /\ Issues("fetch")
            => /\ last_op'.key = invoice_id
               /\ invoice_id = IdOf(inv_no)
               /\ remote > 0
       /\ pdf_content' # pdf_content /\ pdf_content'.bytes # << >>
            => Issues("fetch") /\ last_op'.result = "ok"
       /\ fs' # fs
            => /\ pc = "write"
               /\ last_op.kind = "fetch" /\ last_op.result = "ok"
               /\ last_op.key = IdOf(inv_no)
               /\ pdf_content.bytes # << >>
               /\ DOMAIN fs' = DOMAIN fs \cup {unique_path}
       /\ (\/ Issues("lookup") /\ last_op'.result \in {"absent", "error"}
           \/ Issues("fetch") /\ last_op'.result \in {"empty", "error"})
            => /\ fs' = fs
               /\ pc' = "loop"
               /\ idx' = idx + 1]_vars

\* the second row's PDF was written after its fetch was retried
C20_Witness ==
    /\ script = "download"
    /\ pc = "loop"
    /\ idx = 3
    /\ last_op.kind = "fetch"
    /\ last_op.attempt = 2
    /\ last_op.result = "ok"
    /\ last_op.key = IdOf(inv_no)
    /\ unique_path \in DOMAIN fs
    /\ fs[unique_path] = PdfBytes

\* C21: the program writes the token file only in refresh_access_token and
\* only when the grant has succeeded (the operator taking the file away is
\* not a write), and every refresh leaves the realm id stored in the file
\* as it was.
C21_OnlyRefreshWritesTokenFile ==
    [][/\ (token_file' # token_file /\ token_file' # NoFile)
            => /\ pc = "refresh"
               /\ refresh_count' = refresh_count + 1
               /\ issued' = issued + 1
       /\ refresh_count' # refresh_count
            => token_file'.realm_id = token_file.realm_id]_vars

\* the number of the token pair the credentials held when the failed refresh
\* was called: the grant that failed issued none, the other failures came
\* after the grant had issued the next one
PairBeforeFailedRefresh == IF abort_cause = "grant" THEN issued ELSE issued - 1

\* C22: after refresh_access_token reported failure (grant, file write or
\* confirmation), the token file, CONFIG's tokens and the client's tokens
\* are what they were when it was called.
C22_FailedRefreshChangesNothing ==
    abort_cause \in {"grant", "write", "confirm"}
        => /\ token_file = Tokens(AccessOf(PairBeforeFailedRefresh),
                                  RefreshOf(PairBeforeFailedRefresh),
                                  CONFIG.REALM_ID)
           /\ CONFIG.ACCESS_TOKEN = AccessOf(PairBeforeFailedRefresh)
           /\ CONFIG.REFRESH_TOKEN = RefreshOf(PairBeforeFailedRefresh)
           /\ ClientToken = AccessOf(PairBeforeFailedRefresh)
           /\ client.auth_client.refresh_token = RefreshOf(PairBeforeFailedRefresh)
           /\ client.refresh_token = RefreshOf(PairBeforeFailedRefresh)

\* the outcomes by which a prerequisite of the create fails
Unresolved == {"missing", "error"}

\* C23: in the import Invoice.save is reached only along the chain of the
\* same attempt in which the existence check reported the number absent, the
\* customer was found, every named item was found and at least one line was
\* built, and it sends exactly those lines; a prerequisite that fails ends
\* the record with no create and no count, and the success counter moves
\* only when a create returns success.
C23_CreateAfterPrerequisites ==
    [][script = "import" =>
        /\ ((pc' = "customer" /\ pc # "customer")
              => (/\ Issues("exists")
                  /\ last_op'.result = "absent"
                  /\ last_op'.key = inv_no'
                  /\ last_op'.attempt = attempt'))
        /\ ((pc' \in {"term", "item", "save"} /\ <<pc, li>> # <<pc', li'>>)
              => (/\ pc \in {"customer", "term", "item"}
                  /\ attempt' = attempt
                  /\ inv_no' = inv_no
                  /\ (pc = "customer"
                        => (Issues("customer") /\ last_op'.result = "found"))
                  /\ (pc = "term" => Issues("term"))
                  /\ (pc = "item"
                        => (Issues("item") /\ last_op'.result = "found"))))
        /\ ((pc' = "save" /\ pc # "save")
              => (lines' # << >> /\ Len(lines') = Len(ForwardedRows)))
        /\ (Issues("save")
              => (/\ pc = "save"
                  /\ lines # << >>
                  /\ payload' = lines
                  /\ last_op'.key = inv_no))
        /\ ((\/ (Issues("exists") /\ last_op'.result \in {"found"} \cup Unresolved)
             \/ (Issues("customer") /\ last_op'.result \in Unresolved)
             \/ (Issues("item") /\ last_op'.result \in Unresolved))
              => (/\ pc' = "loop"
                  /\ idx' = idx + 1
                  /\ success' = success
                  /\ remote' = remote))
        /\ (success' # success
              => (Issues("save") /\ last_op'.result = "ok"))]_vars

\* C24: once the loop has been left by break, the only step that follows is
\* the end of the run: it issues no remote operation, invokes no grant,
\* writes neither the token file nor a PDF nor anything on the remote side,
\* and in the import it prints the one summary of the run, over the number
\* of input records.
C24_NothingAfterAbort ==
    [][aborted
         => /\ pc = "finish" /\ pc' = "done"
            /\ abort_cause' = abort_cause
            /\ ~IssuesAny /\ last_op' = last_op
            /\ refresh_count' = refresh_count /\ issued' = issued
            /\ token_file' = token_file
            /\ fs' = fs /\ allocated' = allocated
            /\ remote' = remote
            /\ total' = total /\ total' <= NumInvoices
            /\ summaries = 0
            /\ summaries' = IF script = "import" THEN 1 ELSE 0]_vars

\* an import of three records that was aborted in its first record by a
\* rejected grant and ended with its summary
C24_Witness ==
    /\ script = "import"
    /\ pc = "done"
    /\ abort_cause = "grant"
    /\ summaries = 1
    /\ total = 3
    /\ idx = 1
    /\ success = 0
====
